---- MODULE Spec2Model ----
(***************************************************************************)
(* The feed-state store of src/src/store.ts: the zustand store useUIStore  *)
(* (searchQuery, stories, searchStories, page, searchPage and its seven    *)
(* setters) persisted under the key 'ui-store' through customStorage, the  *)
(* localStorage wrapper that stamps every write and expires entries older  *)
(* than EXPIRATION_TIME on read.                                           *)
(*                                                                         *)
(* A Story is modelled by its id, its time and its score; title, url and   *)
(* by are carried exactly like score (no code path reads them), so score   *)
(* stands for all the fields that are neither the key nor the sort key.    *)
(***************************************************************************)
EXTENDS Integers, Sequences, FiniteSets, TLC

\* ---------------------------------------------------------------- bounds
MaxBatch == 2
MaxPage == 2
MaxShortTicks == 1
MaxLongTicks == 1

Ids == {1, 2}
FeedIds == {1, 2, 3}
Times == {1, 2}
Queries == {"", "foo", "bar"}
Pages == 1..MaxPage

\* interface Story (id, score, time; see the header for the other fields).
\* Three universes of stories, from the smallest to the richest:
\*   Story        two ids, one time, one score: what the storage-centred
\*                specification Spec feeds both lists with;
\*   SearchStory  two ids at two times: what the merge-centred specification
\*                SpecFeed feeds searchStories with;
\*   FeedStory    three ids at two times, story 1 in two versions that differ
\*                in score alone: what SpecFeed feeds stories with.
Story == [id : Ids, score : {10}, time : {1}]
SearchStory == [id : Ids, score : {10}, time : Times]
FeedStory ==
    {s \in [id : FeedIds, score : {10, 99}, time : Times] : s.score = 10 \/ s.id = 1}

\* The arguments addStories / addSearchStories are called with: any array of
\* stories, the empty one and ones repeating an id included.
BatchesOf(S) == UNION {[1..n -> S] : n \in 0..MaxBatch}
Batches == BatchesOf(Story)
SearchBatches == BatchesOf(SearchStory)
FeedBatches == BatchesOf(FeedStory)

\* ------------------------------------------------------------- constants
EXPIRATION_TIME == 24 * 60 * 60 * 1000

StoreName == "ui-store"

\* ----------------------------------------------------------------- merge
\* self.findIndex(s => s.id === id): the first index holding the id
\* (only called for an id that occurs in self).
findIndex(self, id) ==
    CHOOSE i \in 1..Len(self) :
        /\ self[i].id = id
        /\ \A j \in 1..(i - 1) : self[j].id # id

\* Mutants of the filter: no de-duplication; the last occurrence kept.
FilterNothing(self) == self

FilterFirstLast(self) ==
    LET keep(i) == \A j \in (i + 1)..Len(self) : self[j].id # self[i].id
        F[i \in 0..Len(self)] ==
            IF i = 0 THEN <<>>
            ELSE IF keep(i) THEN Append(F[i - 1], self[i]) ELSE F[i - 1]
    IN F[Len(self)]

\* .filter((story, index, self) => self.findIndex(s => s.id === story.id) === index)
FilterFirst(self) ==
    LET F[i \in 0..Len(self)] ==
            IF i = 0 THEN <<>>
            ELSE IF findIndex(self, self[i].id) = i
                 THEN Append(F[i - 1], self[i])
                 ELSE F[i - 1]
    IN F[Len(self)]

\* Mutants of the sort step: the element is left where it came; the element
\* goes before the elements of its own time (a sort that is not stable).
InsertAtEnd(sorted, x) == Append(sorted, x)

InsertBeforeTies(sorted, x) ==
    LET k == Cardinality({i \in 1..Len(sorted) : sorted[i].time > x.time})
    IN SubSeq(sorted, 1, k) \o <<x>> \o SubSeq(sorted, k + 1, Len(sorted))

\* One step of Array.prototype.sort with the comparator (a, b) => b.time - a.time:
\* the sort is stable, so x goes after every element that does not sort after it
\* (time >= x.time) and before the first one that does.
InsertByTime(sorted, x) ==
    LET k == Cardinality({i \in 1..Len(sorted) : sorted[i].time >= x.time})
    IN SubSeq(sorted, 1, k) \o <<x>> \o SubSeq(sorted, k + 1, Len(sorted))

\* .sort((a, b) => b.time - a.time)
SortByTimeDesc(s) ==
    LET F[i \in 0..Len(s)] ==
            IF i = 0 THEN <<>> ELSE InsertByTime(F[i - 1], s[i])
    IN F[Len(s)]

\* Mutants of the merge: a non-empty batch replaces the list (the latest
\* delivery wins); the list is sorted before it is de-duplicated.
MergeStoriesReplace(existingStories, newStories) ==
    IF newStories = <<>>
    THEN existingStories
    ELSE SortByTimeDesc(FilterFirst(newStories))

MergeStoriesSortFirst(existingStories, newStories) ==
    FilterFirst(SortByTimeDesc(existingStories \o newStories))

\* [...existingStories, ...newStories].filter(...).sort(...)
MergeStories(existingStories, newStories) ==
    SortByTimeDesc(FilterFirst(existingStories \o newStories))

\* ------------------------------------------------------------------ JSON
\* JSON text is modelled by its structure: an object is the sequence of its
\* <<key, text of the value>> members in the order JSON.stringify emits them,
\* an array the sequence of its elements' texts, a number or string itself.
\* JSON.stringify drops the function-valued members of the state (the seven
\* setters), which is why only the five data members appear.
StoryText(s) ==
    << <<"id", s.id>>, <<"score", s.score>>, <<"time", s.time>> >>

StoriesText(ss) == [i \in 1..Len(ss) |-> StoryText(ss[i])]

StateText(st) ==
    << <<"searchQuery", st.searchQuery>>,
       <<"stories", StoriesText(st.stories)>>,
       <<"searchStories", StoriesText(st.searchStories)>>,
       <<"page", st.page>>,
       <<"searchPage", st.searchPage>> >>

\* The StorageValue zustand's persist hands to setItem: { state, version }.
ValueText(v) == << <<"state", StateText(v.state)>>, <<"version", v.version>> >>

\* JSON.stringify({ value, timestamp: now })
JSON_stringify(envelope) ==
    [kind |-> "object",
     body |-> << <<"value", ValueText(envelope.value)>>,
                 <<"timestamp", envelope.timestamp>> >>]

\* Member lookup in an object text.
HasMember(body, key) == \E i \in 1..Len(body) : body[i][1] = key
Member(body, key) == body[CHOOSE i \in 1..Len(body) : body[i][1] = key][2]

ParseStory(t) ==
    [id |-> Member(t, "id"), score |-> Member(t, "score"), time |-> Member(t, "time")]

ParseStories(ts) == [i \in 1..Len(ts) |-> ParseStory(ts[i])]

ParseState(t) ==
    [searchQuery |-> Member(t, "searchQuery"),
     stories |-> ParseStories(Member(t, "stories")),
     searchStories |-> ParseStories(Member(t, "searchStories")),
     page |-> Member(t, "page"),
     searchPage |-> Member(t, "searchPage")]

ParseValue(t) ==
    [state |-> ParseState(Member(t, "state")), version |-> Member(t, "version")]

\* ------------------------------------------------------------ localStorage
\* What localStorage holds under a name: nothing (getItem gives null), or a
\* string, which is the empty string, text that is not JSON, the JSON text
\* null, or the text of a JSON object.
NoItem == [kind |-> "absent", body |-> <<>>]
EmptyString == [kind |-> "empty", body |-> <<>>]
NotJson == [kind |-> "garbage", body |-> <<>>]
JsonNull == [kind |-> "null", body |-> <<>>]
\* The text {}: a JSON object that is no envelope.
EmptyObject == [kind |-> "object", body |-> <<>>]

Names == {StoreName}

\* What customStorage.getItem gives its caller: it returns null, undefined or
\* a value, or it throws.
NoValue == <<>>
ReturnNull == [kind |-> "null", value |-> NoValue]
ReturnUndefined == [kind |-> "undefined", value |-> NoValue]
Return(v) == [kind |-> "value", value |-> v]
Throw == [kind |-> "throw", value |-> NoValue]
NoRead == [kind |-> "none", value |-> NoValue]

\* Mutant of the expiry test: an entry exactly EXPIRATION_TIME old is expired.
ExpiredAtLimit(t, timestamp) == t - timestamp >= EXPIRATION_TIME

\* now - timestamp > EXPIRATION_TIME
Expired(t, timestamp) == t - timestamp > EXPIRATION_TIME

\* Mutant of getItem: a read that returns the value stamps the entry anew.
getItemTouches(ls, name, t) ==
    LET item == ls[name]
    IN  IF item.kind \in {"absent", "empty"}
        THEN [ret |-> ReturnNull, storage |-> ls]
        ELSE IF item.kind \in {"garbage", "null"}
        THEN [ret |-> Throw, storage |-> ls]
        ELSE IF HasMember(item.body, "timestamp")
                /\ Expired(t, Member(item.body, "timestamp"))
        THEN [ret |-> ReturnNull, storage |-> [ls EXCEPT ![name] = NoItem]]
        ELSE IF HasMember(item.body, "value")
        THEN [ret |-> Return(ParseValue(Member(item.body, "value"))),
              storage |-> [ls EXCEPT ![name] =
                              JSON_stringify(
                                  [value |-> ParseValue(Member(item.body, "value")),
                                   timestamp |-> t])]]
        ELSE [ret |-> ReturnUndefined, storage |-> ls]

\* Mutant of getItem: an expired entry reads as null but is left in storage.
getItemKeepsExpired(ls, name, t) ==
    LET item == ls[name]
    IN  IF item.kind \in {"absent", "empty"}
        THEN [ret |-> ReturnNull, storage |-> ls]
        ELSE IF item.kind \in {"garbage", "null"}
        THEN [ret |-> Throw, storage |-> ls]
        ELSE IF HasMember(item.body, "timestamp")
                /\ Expired(t, Member(item.body, "timestamp"))
        THEN [ret |-> ReturnNull, storage |-> ls]
        ELSE IF HasMember(item.body, "value")
        THEN [ret |-> Return(ParseValue(Member(item.body, "value"))), storage |-> ls]
        ELSE [ret |-> ReturnUndefined, storage |-> ls]

\* customStorage.getItem(name) at time t on storage ls: the result and the
\* storage it leaves. JSON.parse throws on text that is not JSON; destructuring
\* the parsed null throws; a member the object lacks destructures to undefined,
\* and now - undefined is NaN, which is not > EXPIRATION_TIME.
getItem(ls, name, t) ==
    LET item == ls[name]
    IN  IF item.kind \in {"absent", "empty"}
        THEN [ret |-> ReturnNull, storage |-> ls]
        ELSE IF item.kind \in {"garbage", "null"}
        THEN [ret |-> Throw, storage |-> ls]
        ELSE IF HasMember(item.body, "timestamp")
                /\ Expired(t, Member(item.body, "timestamp"))
        THEN [ret |-> ReturnNull, storage |-> [ls EXCEPT ![name] = NoItem]]
        ELSE IF HasMember(item.body, "value")
        THEN [ret |-> Return(ParseValue(Member(item.body, "value"))), storage |-> ls]
        ELSE [ret |-> ReturnUndefined, storage |-> ls]

\* Mutant of setItem: an entry already there is not overwritten.
setItemOnce(ls, name, value, t) ==
    IF ls[name] = NoItem
    THEN [ls EXCEPT ![name] = JSON_stringify([value |-> value, timestamp |-> t])]
    ELSE ls

\* customStorage.setItem(name, value) at time t
setItem(ls, name, value, t) ==
    [ls EXCEPT ![name] = JSON_stringify([value |-> value, timestamp |-> t])]

\* customStorage.removeItem(name)
removeItem(ls, name) == [ls EXCEPT ![name] = NoItem]

\* ------------------------------------------------------------------ state
VARIABLES
    searchQuery,    \* UIState.searchQuery
    stories,        \* UIState.stories
    searchStories,  \* UIState.searchStories
    page,           \* UIState.page
    searchPage,     \* UIState.searchPage
    localStorage,   \* the browser's localStorage: name -> entry
    now,            \* new Date().getTime()
    pc,             \* "idle", or "hydrate" while persist holds getItem's result
    lastRead,       \* what the getItem call in progress gave (NoRead when none)
    written,        \* history: the value and time of the last setItem whose
                    \* entry nothing but getItem has touched since
    isSearching,    \* App's useState(false): the component's search mode
    inflight        \* the query of App's search fetch in flight (NoFetch when none)

vars == <<searchQuery, stories, searchStories, page, searchPage,
          localStorage, now, pc, lastRead, written, isSearching, inflight>>

\* The data members of the store's state.
State ==
    [searchQuery |-> searchQuery, stories |-> stories,
     searchStories |-> searchStories, page |-> page, searchPage |-> searchPage]

\* The state creator's literal: searchQuery '', stories [], searchStories [],
\* page 1, searchPage 1.
InitialState ==
    [searchQuery |-> "", stories |-> <<>>, searchStories |-> <<>>,
     page |-> 1, searchPage |-> 1]

\* persist's setItem(): storage.setItem(options.name, { state, version }) with
\* the options of the store: name 'ui-store', no version given (0).
PersistedValue(st) == [state |-> st, version |-> 0]

NotWritten == [kind |-> "none", value |-> NoValue, at |-> 0]

NoFetch == "<none>"

Init ==
    /\ searchQuery = InitialState.searchQuery
    /\ stories = InitialState.stories
    /\ searchStories = InitialState.searchStories
    /\ page = InitialState.page
    /\ searchPage = InitialState.searchPage
    /\ localStorage = [n \in Names |-> NoItem]
    /\ now = 0
    /\ pc = "idle"
    /\ lastRead = NoRead
    /\ written = NotWritten
    /\ isSearching = FALSE
    /\ inflight = NoFetch

\* Mutant of SetState: the store takes the new state and nothing is written.
SetStateInMemory(st) ==
    /\ searchQuery' = st.searchQuery
    /\ stories' = st.stories
    /\ searchStories' = st.searchStories
    /\ page' = st.page
    /\ searchPage' = st.searchPage
    /\ UNCHANGED <<localStorage, written, now, pc, lastRead, isSearching, inflight>>

\* set(() => partial) under persist: the store takes the new state and persist
\* writes the whole of it through customStorage.setItem.
PersistSet(st) ==
    /\ searchQuery' = st.searchQuery
    /\ stories' = st.stories
    /\ searchStories' = st.searchStories
    /\ page' = st.page
    /\ searchPage' = st.searchPage
    /\ localStorage' = setItem(localStorage, StoreName, PersistedValue(st), now)
    /\ written' = [kind |-> "some", value |-> PersistedValue(st), at |-> now]

\* A setter of the store called on its own: set(), and nothing of the
\* component or the clock changes.
SetState(st) ==
    /\ PersistSet(st)
    /\ UNCHANGED <<now, pc, lastRead, isSearching, inflight>>

\* The state each setter hands to set(), as a function of its argument and
\* the current state (get()).

\* Mutant of the guard: set() is called whatever the query.
setSearchQueryAlways(query) == TRUE

\* setSearchQuery's guard: query !== get().searchQuery
setSearchQueryChanges(query) == query # searchQuery

\* Mutant of the partial: the search cursor is left as it is.
setSearchQueryKeepsPage(query) ==
    [State EXCEPT !.searchQuery = query, !.searchStories = <<>>]

\* setSearchQuery's partial: { searchQuery: query, searchPage: 1, searchStories: [] }
setSearchQueryState(query) ==
    [State EXCEPT !.searchQuery = query,
                  !.searchPage = 1,
                  !.searchStories = <<>>]

\* Mutant of addStories: the batch is merged into both lists.
addStoriesBoth(newStories) ==
    [State EXCEPT !.stories = MergeStories(stories, newStories),
                  !.searchStories = MergeStories(searchStories, newStories)]

\* addStories: { stories: updatedStories }
addStoriesState(newStories) ==
    [State EXCEPT !.stories = MergeStories(stories, newStories)]

\* Mutant of addSearchStories: the batch of a request issued for another
\* query than the current one is dropped.
addSearchStoriesIfCurrent(newStories) ==
    IF inflight \in {NoFetch, searchQuery}
    THEN [State EXCEPT !.searchStories = MergeStories(searchStories, newStories)]
    ELSE State

\* addSearchStories: { searchStories: updatedStories }
addSearchStoriesState(newStories) ==
    [State EXCEPT !.searchStories = MergeStories(searchStories, newStories)]

\* Mutant of resetStories: the cursor goes back to 1 with the list.
resetStoriesAndPage == [State EXCEPT !.stories = <<>>, !.page = 1]

\* resetStories: { stories: [] }
resetStoriesState == [State EXCEPT !.stories = <<>>]

\* Mutant of resetSearchStories: the search cursor goes back to 1 too.
resetSearchStoriesAndPage == [State EXCEPT !.searchStories = <<>>, !.searchPage = 1]

\* resetSearchStories: { searchStories: [] }
resetSearchStoriesState == [State EXCEPT !.searchStories = <<>>]

\* setPage: { page }
setPageState(p) == [State EXCEPT !.page = p]

\* setSearchPage: { searchPage: page }
setSearchPageState(p) == [State EXCEPT !.searchPage = p]

\* setSearchQuery(query): set() is called only when the query differs.
setSearchQuery(query) ==
    /\ pc = "idle"
    /\ IF setSearchQueryChanges(query)
       THEN SetState(setSearchQueryState(query))
       ELSE UNCHANGED vars

\* addStories(newStories)
addStories(newStories) ==
    /\ pc = "idle"
    /\ SetState(addStoriesState(newStories))

\* addSearchStories(newStories)
addSearchStories(newStories) ==
    /\ pc = "idle"
    /\ SetState(addSearchStoriesState(newStories))

\* resetStories()
resetStories ==
    /\ pc = "idle"
    /\ SetState(resetStoriesState)

\* resetSearchStories()
resetSearchStories ==
    /\ pc = "idle"
    /\ SetState(resetSearchStoriesState)

\* setPage(page)
setPage(p) ==
    /\ pc = "idle"
    /\ SetState(setPageState(p))

\* setSearchPage(page)
setSearchPage(p) ==
    /\ pc = "idle"
    /\ SetState(setSearchPageState(p))

\* The page is loaded: the module runs again, create() builds the store from
\* the state creator's literal and persist starts hydrating it with
\* customStorage.getItem('ui-store'). App mounts anew (isSearching false) and
\* the requests of the page left behind are gone.
Load ==
    /\ pc = "idle"
    /\ LET r == getItem(localStorage, StoreName, now)
       IN  /\ lastRead' = r.ret
           /\ localStorage' = r.storage
    /\ searchQuery' = InitialState.searchQuery
    /\ stories' = InitialState.stories
    /\ searchStories' = InitialState.searchStories
    /\ page' = InitialState.page
    /\ searchPage' = InitialState.searchPage
    /\ pc' = "hydrate"
    /\ isSearching' = FALSE
    /\ inflight' = NoFetch
    /\ UNCHANGED <<now, written>>

\* persist's hydrate continues with what getItem gave: a value's state is
\* merged over the initial state; null or undefined leaves the initial state;
\* a throw is caught by persist and leaves the initial state too.
Hydrate ==
    /\ pc = "hydrate"
    /\ IF lastRead.kind = "value"
       THEN /\ searchQuery' = lastRead.value.state.searchQuery
            /\ stories' = lastRead.value.state.stories
            /\ searchStories' = lastRead.value.state.searchStories
            /\ page' = lastRead.value.state.page
            /\ searchPage' = lastRead.value.state.searchPage
       ELSE UNCHANGED <<searchQuery, stories, searchStories, page, searchPage>>
    /\ lastRead' = NoRead
    /\ pc' = "idle"
    /\ UNCHANGED <<localStorage, now, written, isSearching, inflight>>

\* useUIStore.persist.clearStorage(): customStorage.removeItem('ui-store')
clearStorage ==
    /\ pc = "idle"
    /\ localStorage' = removeItem(localStorage, StoreName)
    /\ written' = NotWritten
    /\ UNCHANGED <<searchQuery, stories, searchStories, page, searchPage,
                   now, pc, lastRead, isSearching, inflight>>

\* Mutant of TickLong: a sweep removes the entry as the time passes.
TickLongEvicts ==
    /\ pc = "idle"
    /\ now \div EXPIRATION_TIME < MaxLongTicks
    /\ now' = now + EXPIRATION_TIME
    /\ localStorage' = removeItem(localStorage, StoreName)
    /\ UNCHANGED <<searchQuery, stories, searchStories, page, searchPage,
                   pc, lastRead, written, isSearching, inflight>>

\* Time passes: one millisecond, or a whole EXPIRATION_TIME.
TickShort ==
    /\ pc = "idle"
    /\ now % EXPIRATION_TIME < MaxShortTicks
    /\ now' = now + 1
    /\ UNCHANGED <<searchQuery, stories, searchStories, page, searchPage,
                   localStorage, pc, lastRead, written, isSearching, inflight>>

TickLong ==
    /\ pc = "idle"
    /\ now \div EXPIRATION_TIME < MaxLongTicks
    /\ now' = now + EXPIRATION_TIME
    /\ UNCHANGED <<searchQuery, stories, searchStories, page, searchPage,
                   localStorage, pc, lastRead, written, isSearching, inflight>>

Next ==
    \/ \E query \in Queries : setSearchQuery(query)
    \/ \E newStories \in Batches : addStories(newStories)
    \/ \E newStories \in Batches : addSearchStories(newStories)
    \/ resetStories
    \/ resetSearchStories
    \/ \E p \in Pages : setPage(p)
    \/ \E p \in Pages : setSearchPage(p)
    \/ Load
    \/ Hydrate
    \/ clearStorage
    \/ TickShort
    \/ TickLong

Spec == Init /\ [][Next]_vars

\* The merge-centred specification: the merges and the resets alone (no query
\* or cursor setter, no reload, no time passing), fed from the richer
\* universes.
NextFeed ==
    \/ \E newStories \in FeedBatches : addStories(newStories)
    \/ \E newStories \in SearchBatches : addSearchStories(newStories)
    \/ resetStories
    \/ resetSearchStories

SpecFeed == Init /\ [][NextFeed]_vars

\* localStorage belongs to the origin, not to this module: anything else that
\* writes 'ui-store' (another script, the developer tools, an earlier build of
\* the page) can leave an entry customStorage.setItem never wrote.
ForeignEntries == {EmptyString, NotJson, JsonNull, EmptyObject}

ForeignWrite ==
    /\ pc = "idle"
    /\ \E e \in ForeignEntries :
          localStorage' = [localStorage EXCEPT ![StoreName] = e]
    /\ written' = NotWritten
    /\ UNCHANGED <<searchQuery, stories, searchStories, page, searchPage,
                   now, pc, lastRead, isSearching, inflight>>

\* The store in a browser whose localStorage others write too.
NextEnv == Next \/ ForeignWrite

SpecEnv == Init /\ [][NextEnv]_vars

\* ------------------------------------------------------------------- App
\* The component that drives the store: the search box, the search request
\* and the two onSuccess callbacks.
AppQueries == {"", " ", "foo", "bar"}

\* String.prototype.trim on the queries of the model.
trim(query) == IF query = " " THEN "" ELSE query

\* What fetchSearchResults resolves to for a query: the hits of the search
\* API mapped to stories (the two queries have no hit in common).
SearchResults(query) ==
    CASE query = "foo" -> <<[id |-> 1, score |-> 10, time |-> 2]>>
      [] query = "bar" -> <<[id |-> 2, score |-> 10, time |-> 1]>>
      [] OTHER -> <<>>

\* const storiesToRender = isSearching ? searchStories : stories
storiesToRender == IF isSearching THEN searchStories ELSE stories

\* The debounced handleSearchChange(query): setSearchQuery(query), then
\* setIsSearching(query.trim() !== '').
handleSearchChange(query) ==
    /\ pc = "idle"
    /\ IF setSearchQueryChanges(query)
       THEN PersistSet(setSearchQueryState(query))
       ELSE UNCHANGED <<searchQuery, stories, searchStories, page, searchPage,
                        localStorage, written>>
    /\ isSearching' = (trim(query) # "")
    /\ UNCHANGED <<now, pc, lastRead, inflight>>

\* useInfiniteQuery(['search', searchQuery], fetchSearchResults, { enabled:
\* isSearching && searchQuery.trim() !== '' }): the request for the current
\* query goes out.
fetchSearchResults ==
    /\ pc = "idle"
    /\ isSearching
    /\ trim(searchQuery) # ""
    /\ inflight = NoFetch
    /\ inflight' = searchQuery
    /\ UNCHANGED <<searchQuery, stories, searchStories, page, searchPage,
                   localStorage, now, pc, lastRead, written, isSearching>>

\* The request in flight resolves and its onSuccess runs:
\* addSearchStories(data.pages.flatMap(page => page.stories)).
onSearchSuccess ==
    /\ pc = "idle"
    /\ inflight # NoFetch
    /\ PersistSet(addSearchStoriesState(SearchResults(inflight)))
    /\ inflight' = NoFetch
    /\ UNCHANGED <<now, pc, lastRead, isSearching>>

\* The store under App: the search box, the search request and its response,
\* the top stories' onSuccess (addStories), and page loads.
NextApp ==
    \/ \E query \in AppQueries : handleSearchChange(query)
    \/ fetchSearchResults
    \/ onSearchSuccess
    \/ \E newStories \in Batches : addStories(newStories)
    \/ Load
    \/ Hydrate

SpecApp == Init /\ [][NextApp]_vars

\* A driver that pages: every response is merged by its mode's merge, and
\* the driver moves a cursor on by one (setPage(page + 1)) as it pleases, up
\* to MaxPage + 1.
NextPaging ==
    \/ \E newStories \in SearchBatches : addStories(newStories)
    \/ \E newStories \in Batches : addSearchStories(newStories)
    \/ page <= MaxPage /\ setPage(page + 1)
    \/ searchPage <= MaxPage /\ setSearchPage(searchPage + 1)

SpecPaging == Init /\ [][NextPaging]_vars

\* ================================================================ claims
UniqueIds(items) ==
    \A i, j \in 1..Len(items) : i # j => items[i].id # items[j].id

SortedByTimeDesc(items) ==
    \A i \in 1..(Len(items) - 1) : items[i].time >= items[i + 1].time

IdsOf(items) == {items[i].id : i \in 1..Len(items)}

\* C1 (uniqueness): in every state reachable by the seven setters, whatever
\* the batches (repeating an id internally or repeating ids already present),
\* neither stories nor searchStories holds two items with the same id.
C1_UniqueIds == UniqueIds(stories) /\ UniqueIds(searchStories)

\* Every id of the universe is in stories and in searchStories, so every
\* further non-empty batch repeats an id already present; a query and both
\* cursors have been set on the way.
C1_Witness ==
    /\ IdsOf(stories) = Ids
    /\ IdsOf(searchStories) = Ids
    /\ searchQuery # ""
    /\ page = MaxPage
    /\ searchPage = MaxPage

\* C2 (sort): in every reachable state every adjacent pair (a, b) of stories
\* and of searchStories has a.time >= b.time, over the whole list.
C2_SortedNewestFirst ==
    SortedByTimeDesc(stories) /\ SortedByTimeDesc(searchStories)

\* Three stories, the newest strictly newer than the oldest, and a search list
\* whose two stories differ in time.
C2_Witness ==
    /\ Len(stories) = 3
    /\ stories[1].time > stories[3].time
    /\ Len(searchStories) = 2
    /\ searchStories[1].time > searchStories[2].time

\* What first-occurrence-wins says of one merge of batch into before giving
\* after: every item of before is in after as it was, and is the only item of
\* its id; an id new to before is represented by the first batch element
\* carrying it, and by that one alone.
FirstOccurrenceWins(before, batch, after) ==
    /\ \A i \in 1..Len(before) :
        /\ \E j \in 1..Len(after) : after[j] = before[i]
        /\ \A j \in 1..Len(after) :
              after[j].id = before[i].id => after[j] = before[i]
    /\ \A k \in 1..Len(batch) :
          (/\ batch[k].id \notin IdsOf(before)
           /\ \A m \in 1..(k - 1) : batch[m].id # batch[k].id)
          => /\ \E j \in 1..Len(after) : after[j] = batch[k]
             /\ \A j \in 1..Len(after) :
                   after[j].id = batch[k].id => after[j] = batch[k]

\* C3 (first occurrence wins): in every reachable state and for every batch,
\* the list addStories / addSearchStories would set keeps each pre-existing
\* item with all its fields, whatever version of it the batch carries, and
\* takes for an id new to the list the earliest batch element carrying it.
C3_FirstOccurrenceWins ==
    /\ \A newStories \in FeedBatches :
          FirstOccurrenceWins(stories, newStories,
                              addStoriesState(newStories).stories)
    /\ \A newStories \in SearchBatches :
          FirstOccurrenceWins(searchStories, newStories,
                              addSearchStoriesState(newStories).searchStories)

\* stories holds story 1 with score 10 beside the two other stories, and
\* merging the score-99 version of story 1 (same time, so only the score
\* tells the two apart) leaves this very list; searchStories holds a story at
\* time 1 that a batch offers again at time 2.
C3_Witness ==
    /\ IdsOf(stories) = FeedIds
    /\ \E i \in 1..Len(stories) :
          /\ stories[i].id = 1
          /\ stories[i].score = 10
          /\ addStoriesState(<<[stories[i] EXCEPT !.score = 99]>>).stories = stories
    /\ \E i \in 1..Len(searchStories) :
          /\ searchStories[i].time = 1
          /\ addSearchStoriesState(<<[searchStories[i] EXCEPT !.time = 2]>>).searchStories
                = searchStories

\* C4 (idempotent merge): in every reachable state and for every batch X,
\* merging X into the list that merging X gave yields that list again.
C4_IdempotentMerge ==
    /\ \A newStories \in FeedBatches :
          LET once == addStoriesState(newStories).stories
          IN MergeStories(once, newStories) = once
    /\ \A newStories \in SearchBatches :
          LET once == addSearchStoriesState(newStories).searchStories
          IN MergeStories(once, newStories) = once

\* Both lists hold two stories of equal time (the order a second merge could
\* disturb), and some batch changes stories when merged once.
C4_Witness ==
    /\ Len(stories) >= 2
    /\ stories[1].time = stories[2].time
    /\ Len(searchStories) = 2
    /\ searchStories[1].time = searchStories[2].time
    /\ \E newStories \in FeedBatches :
          addStoriesState(newStories).stories # stories

\* C5 (query-change reset): every setSearchQuery(q) step with q different from
\* the current query sets the query to q, empties searchStories, sets
\* searchPage to 1 and leaves stories and page as they were.
C5_QueryChangeReset ==
    [][\A query \in Queries :
          (query # searchQuery /\ setSearchQuery(query))
          => /\ searchQuery' = query
             /\ searchStories' = <<>>
             /\ searchPage' = 1
             /\ stories' = stories
             /\ page' = page]_vars

\* The query was changed (it is not the initial one) and the reset is visible:
\* no search results and search cursor 1, beside stories and a page that were
\* there before and are still there.
C5_Witness ==
    /\ searchQuery = "bar"
    /\ searchStories = <<>>
    /\ searchPage = 1
    /\ stories # <<>>
    /\ page = MaxPage
    /\ written.kind = "some"
    /\ written.value.state.searchQuery = "bar"

\* C6 (query-change no-op): every setSearchQuery(q) step with q equal to the
\* current query leaves the query, searchStories, searchPage, stories and page
\* unchanged.
C6_SameQueryNoOp ==
    [][\A query \in Queries :
          (query = searchQuery /\ setSearchQuery(query))
          => /\ searchQuery' = searchQuery
             /\ searchStories' = searchStories
             /\ searchPage' = searchPage
             /\ stories' = stories
             /\ page' = page]_vars

\* A query is set, search results were merged and the search cursor was
\* advanced since: the state a repeated setSearchQuery must not reset.
C6_Witness ==
    /\ searchQuery = "foo"
    /\ Len(searchStories) = 2
    /\ searchPage = MaxPage
    /\ stories # <<>>
    /\ page = MaxPage

\* C7 (cache expiry): a read at time T + d of an entry written at time T
\* returns null and removes the entry when d > 86 400 000 ms, and returns the
\* written value, the entry still stored as written, when d <= 86 400 000 ms.
C7_CacheExpiry ==
    (pc = "hydrate" /\ written.kind = "some")
    => IF now - written.at > 86400000
       THEN /\ lastRead = ReturnNull
            /\ localStorage[StoreName] = NoItem
       ELSE /\ lastRead.kind = "value"
            /\ lastRead.value = written.value
            /\ localStorage[StoreName] =
                  JSON_stringify([value |-> written.value, timestamp |-> written.at])

\* A read one millisecond past the limit: a state with stories and a set query
\* was written at T, the read at T + 86 400 001 gave null and the entry is gone.
C7_Witness ==
    /\ pc = "hydrate"
    /\ written.kind = "some"
    /\ written.value.state.stories # <<>>
    /\ written.value.state.searchQuery # ""
    /\ now - written.at = 86400001
    /\ lastRead = ReturnNull
    /\ localStorage[StoreName] = NoItem

\* C8 (round trip): a read that follows the write of feed state S, with no
\* time or any time within the TTL elapsed and whatever the name held before
\* the write, returns a value whose state equals S.
C8_RoundTrip ==
    (/\ pc = "hydrate"
     /\ written.kind = "some"
     /\ now - written.at <= EXPIRATION_TIME)
    => /\ lastRead.kind = "value"
       /\ lastRead.value.state = written.value.state

\* A state with stories, search stories, a query and advanced cursors was
\* written and read back with no time elapsed.
C8_Witness ==
    /\ pc = "hydrate"
    /\ written.kind = "some"
    /\ now = written.at
    /\ lastRead.kind = "value"
    /\ Len(lastRead.value.state.stories) = 2
    /\ lastRead.value.state.searchStories # <<>>
    /\ lastRead.value.state.searchQuery = "foo"
    /\ lastRead.value.state.page = MaxPage
    /\ lastRead.value.state.searchPage = MaxPage

\* C9 as claimed (cursor monotonicity): over the engine's operations (the
\* steps that are no reload) a cursor never decreases, except that it returns
\* to 1 when its mode's query changes or its mode is cleared, and it never
\* increases by more than 1.
C9_CursorMonotonic ==
    [][(pc = "idle" /\ pc' = "idle")
       => /\ page' < page => (page' = 1 /\ stories' = <<>>)
          /\ searchPage' < searchPage
                => (searchPage' = 1
                    /\ (searchQuery' # searchQuery \/ searchStories' = <<>>))
          /\ page' > page => page' = page + 1
          /\ searchPage' > searchPage => searchPage' = searchPage + 1]_vars

\* C9 as amended: a setter step that changes page changes nothing else of the
\* state, and one that changes searchPage either changes nothing else or is a
\* query change that sets it to 1 and empties searchStories (so merges and
\* resets leave both cursors alone); setPage(n) and setSearchPage(n) set their
\* cursor to exactly n.
C9_CursorChanges ==
    /\ [][(pc = "idle" /\ pc' = "idle")
          => /\ page' # page
                => UNCHANGED <<searchQuery, stories, searchStories, searchPage>>
             /\ searchPage' # searchPage
                => /\ UNCHANGED <<stories, page>>
                   /\ \/ UNCHANGED <<searchQuery, searchStories>>
                      \/ /\ searchQuery' # searchQuery
                         /\ searchPage' = 1
                         /\ searchStories' = <<>>]_vars
    /\ [][\A p \in Pages :
            /\ setPage(p) => page' = p
            /\ setSearchPage(p) => searchPage' = p]_vars

\* Both cursors were advanced by their setters while both lists hold stories
\* and a query is set.
C9_Witness ==
    /\ page = MaxPage
    /\ searchPage = MaxPage
    /\ stories # <<>>
    /\ searchStories # <<>>
    /\ searchQuery # ""

\* An entry that is present but is no envelope {value, timestamp}.
Malformed(entry) ==
    \/ entry.kind \in {"empty", "garbage", "null"}
    \/ /\ entry.kind = "object"
       /\ ~(HasMember(entry.body, "value") /\ HasMember(entry.body, "timestamp"))

\* C10 (malformed cache): a read of a present but malformed entry does not
\* throw and returns absent (null or undefined).
C10_MalformedReadsAbsent ==
    (pc = "hydrate" /\ Malformed(localStorage[StoreName]))
    => lastRead.kind \in {"null", "undefined"}

\* The entry customStorage.setItem leaves for value v written at time t.
EntryOf(v, t) == JSON_stringify([value |-> v, timestamp |-> t])

\* C11 (initialization): every start of the engine (the step that ends
\* persist's hydration) leaves the state equal to the persisted value, and the
\* entry as it was written, when the entry under "ui-store" was present and
\* unexpired at the read; it leaves query "", both lists empty and both
\* cursors 1 when the entry was absent or expired, and then nothing is stored
\* under "ui-store".
C11_Initialization ==
    [][(pc = "hydrate" /\ pc' = "idle")
       => IF written.kind = "some" /\ now - written.at <= EXPIRATION_TIME
          THEN /\ State' = written.value.state
               /\ localStorage'[StoreName] = EntryOf(written.value, written.at)
          ELSE /\ State' = InitialState
               /\ localStorage'[StoreName] = NoItem]_vars

\* The engine has started from an entry that had expired: a state with stories
\* and a query was written more than a TTL ago, the start is over, the state is
\* the initial one and the entry is gone.
C11_Witness ==
    /\ pc = "idle"
    /\ written.kind = "some"
    /\ written.value.state.stories # <<>>
    /\ written.value.state.searchQuery # ""
    /\ now - written.at > EXPIRATION_TIME
    /\ State = InitialState
    /\ localStorage[StoreName] = NoItem

\* What a read of entry gives back as the persisted state, and the time the
\* entry carries.
StoredState(entry) == ParseValue(Member(entry.body, "value")).state

StoredTimestamp(entry) == Member(entry.body, "timestamp")

\* C12 (write-through): every step of a setter that changes the state or the
\* entry, and every reset, setPage and setSearchPage step, leaves under
\* "ui-store" an entry whose value is the full in-memory state and whose
\* timestamp is the time of the step; and between operations an entry that is
\* there never differs from the in-memory state.
C12_WriteThrough ==
    /\ [][(/\ pc = "idle"
           /\ pc' = "idle"
           /\ \/ State' # State
              \/ localStorage' # localStorage /\ ~clearStorage
              \/ resetStories
              \/ resetSearchStories
              \/ \E p \in Pages : setPage(p) \/ setSearchPage(p))
          => /\ localStorage'[StoreName].kind = "object"
             /\ StoredState(localStorage'[StoreName]) = State'
             /\ StoredTimestamp(localStorage'[StoreName]) = now']_vars
    /\ []((pc = "idle" /\ localStorage[StoreName] # NoItem)
          => StoredState(localStorage[StoreName]) = State)

\* Both lists, the query and both cursors were changed, the last of these
\* mutations after time had passed since the first, and the entry carries the
\* state in memory with the time of the last.
C12_Witness ==
    /\ pc = "idle"
    /\ stories # <<>>
    /\ searchStories # <<>>
    /\ searchQuery # ""
    /\ page = MaxPage
    /\ searchPage = MaxPage
    /\ now > 0
    /\ localStorage[StoreName].kind = "object"
    /\ StoredState(localStorage[StoreName]) = State
    /\ StoredTimestamp(localStorage[StoreName]) = now

\* C13 (active collection): between operations, and so right after a reload
\* that adopted persisted state too, the collection rendered is searchStories
\* if the query is non-empty after trimming whitespace, and stories otherwise.
C13_ActiveCollection ==
    pc = "idle"
    => storiesToRender = IF trim(searchQuery) # "" THEN searchStories ELSE stories

\* C14 (stale search response): every delivery of a search response through
\* addSearchStories, whatever query it was fetched for and whatever the query
\* is by then, leaves every item of the response's ids in searchStories beside
\* the items that were there, and changes neither the query nor stories; so
\* the response of a superseded query is merged under the new query.
C14_StaleResponseMerged ==
    [][(/\ pc = "idle"
        /\ pc' = "idle"
        /\ inflight # NoFetch
        /\ inflight' = NoFetch)
       => /\ IdsOf(searchStories')
                = IdsOf(searchStories) \cup IdsOf(SearchResults(inflight))
          /\ \A i \in 1..Len(searchStories) :
                \E j \in 1..Len(searchStories') :
                    searchStories'[j] = searchStories[i]
          /\ UNCHANGED <<searchQuery, stories>>]_vars

\* The query is "bar", no request is in flight, and searchStories holds the
\* item fetched for "foo" and not the one fetched for "bar": the request went
\* out for "foo", the query changed to "bar" and emptied the list, and then
\* the response for "foo" was delivered.
C14_Witness ==
    /\ pc = "idle"
    /\ searchQuery = "bar"
    /\ inflight = NoFetch
    /\ searchStories = SearchResults("foo")
    /\ IdsOf(SearchResults("bar")) \cap IdsOf(searchStories) = {}
    /\ StoredState(localStorage[StoreName]).searchStories = searchStories

\* What C15 says of two responses X and Y delivered to a list in the order
\* X, Y (xy) and in the order Y, X (yx).
BothMerged(before, X, Y, xy, yx) ==
    /\ UniqueIds(xy)
    /\ UniqueIds(yx)
    /\ IdsOf(xy) = IdsOf(before) \cup IdsOf(X) \cup IdsOf(Y)
    /\ IdsOf(yx) = IdsOf(xy)

\* C15 (overlapping fetches): in every reachable state and for every two
\* batches X and Y of the same mode, with any overlap (the same stories, or
\* the same ids at other times), delivering X then Y and
\* delivering Y then X both give a list without duplicate ids whose ids are
\* those of the list before, of X and of Y; and no step queues or coalesces:
\* a delivery leaves both cursors alone and an advance of a cursor adds
\* exactly one, so one advance per delivery ends two higher after two.
C15_OverlappingFetches ==
    /\ [](/\ \A X \in SearchBatches : \A Y \in Batches :
               BothMerged(stories, X, Y,
                          MergeStories(addStoriesState(X).stories, Y),
                          MergeStories(addStoriesState(Y).stories, X))
          /\ \A X \in Batches : \A Y \in Batches :
               BothMerged(searchStories, X, Y,
                          MergeStories(addSearchStoriesState(X).searchStories, Y),
                          MergeStories(addSearchStoriesState(Y).searchStories, X)))
    /\ [][/\ (stories' # stories \/ searchStories' # searchStories)
                => UNCHANGED <<page, searchPage>>
          /\ page' # page => page' = page + 1
          /\ searchPage' # searchPage => searchPage' = searchPage + 1]_vars

\* Two deliveries that overlap were merged into each list (both ids are
\* there, at different times in stories) and each cursor was advanced twice.
C15_Witness ==
    /\ IdsOf(stories) = Ids
    /\ stories[1].time > stories[2].time
    /\ IdsOf(searchStories) = Ids
    /\ page = 1 + 2
    /\ searchPage = 1 + 2
    /\ \E X \in SearchBatches : \E Y \in SearchBatches :
          /\ IdsOf(X) \cap IdsOf(Y) # {}
          /\ IdsOf(X) # IdsOf(Y)
          /\ MergeStories(MergeStories(<<>>, X), Y) = stories

\* The reference merge, written from its description and not from the code.
\* Concat then keep the first occurrence of each id:
RefDedup(items) ==
    LET firsts == {i \in 1..Len(items) :
                      \A j \in 1..(i - 1) : items[j].id # items[i].id}
    IN  [firsts |-> firsts, items |-> items]

\* The position item i of a deduplicated list takes in a stable sort by time
\* descending: after every kept item that is newer, and after every kept item
\* of the same time that stood before it.
RefRank(d, i) ==
    1 + Cardinality({j \in d.firsts :
                        \/ d.items[j].time > d.items[i].time
                        \/ d.items[j].time = d.items[i].time /\ j < i})

RefMerge(existingStories, newStories) ==
    LET d == RefDedup(existingStories \o newStories)
    IN  [r \in 1..Cardinality(d.firsts) |->
            d.items[CHOOSE i \in d.firsts : RefRank(d, i) = r]]

\* C16 (merge result): in every reachable state and for every batch, the list
\* addStories / addSearchStories sets is the reference result (existing items
\* then batch, first occurrence of each id kept, stable sort by time
\* descending), and its ids are exactly the existing ids and the batch's ids.
C16_MergeIsReference ==
    /\ \A newStories \in FeedBatches :
          LET after == addStoriesState(newStories).stories
          IN  /\ after = RefMerge(stories, newStories)
              /\ IdsOf(after) = IdsOf(stories) \cup IdsOf(newStories)
    /\ \A newStories \in SearchBatches :
          LET after == addSearchStoriesState(newStories).searchStories
          IN  /\ after = RefMerge(searchStories, newStories)
              /\ IdsOf(after) = IdsOf(searchStories) \cup IdsOf(newStories)

\* stories holds three stories of which two have the same time, the one with
\* the larger id first (so the tie is in arrival order and not in id order),
\* and a batch that repeats a stored id at a newer time changes nothing.
C16_Witness ==
    /\ Len(stories) = 3
    /\ \E i \in 1..2 :
          /\ stories[i].time = stories[i + 1].time
          /\ stories[i].id > stories[i + 1].id
    /\ Len(searchStories) = 2
    /\ searchStories[1].time = searchStories[2].time
    /\ searchStories[1].id > searchStories[2].id
    /\ \E newStories \in SearchBatches :
          /\ Len(newStories) = 2
          /\ newStories[1].id = searchStories[2].id
          /\ newStories[1].time > searchStories[2].time
          /\ addSearchStoriesState(newStories).searchStories = searchStories

\* C17 (merge frame): for every batch, the state addStories hands to set()
\* differs from the current one in stories at most, and the one
\* addSearchStories hands to set() in searchStories at most; and every setter
\* step that leaves a changed, non-empty stories (a merge into stories)
\* leaves searchStories, both cursors and the query as they were, and likewise
\* for searchStories.
C17_MergeFrame ==
    /\ [](/\ \A newStories \in Batches :
               addStoriesState(newStories)
                  = [State EXCEPT !.stories = addStoriesState(newStories).stories]
          /\ \A newStories \in Batches :
               addSearchStoriesState(newStories)
                  = [State EXCEPT !.searchStories =
                                     addSearchStoriesState(newStories).searchStories])
    /\ [][(pc = "idle" /\ pc' = "idle")
          => /\ (stories' # stories /\ stories' # <<>>)
                => UNCHANGED <<searchStories, page, searchPage, searchQuery>>
             /\ (searchStories' # searchStories /\ searchStories' # <<>>)
                => UNCHANGED <<stories, page, searchPage, searchQuery>>]_vars

\* Merges went into both lists after the query and both cursors were set, and
\* the lists differ: stories holds both stories, searchStories one.
C17_Witness ==
    /\ pc = "idle"
    /\ Len(stories) = 2
    /\ Len(searchStories) = 1
    /\ searchQuery = "foo"
    /\ page = MaxPage
    /\ searchPage = MaxPage
    /\ StoredState(localStorage[StoreName]) = State

\* C18 (reset): every resetStories step empties stories and leaves page,
\* searchStories, searchPage and the query as they were; every
\* resetSearchStories step empties searchStories and leaves searchPage,
\* stories, page and the query as they were.
C18_ResetFrame ==
    [][/\ resetStories
          => /\ stories' = <<>>
             /\ UNCHANGED <<page, searchStories, searchPage, searchQuery>>
       /\ resetSearchStories
          => /\ searchStories' = <<>>
             /\ UNCHANGED <<searchPage, stories, page, searchQuery>>]_vars

\* searchStories is empty under a query and an advanced search cursor while
\* stories and its advanced cursor are there, and the entry holds this state.
C18_Witness ==
    /\ pc = "idle"
    /\ searchStories = <<>>
    /\ searchPage = MaxPage
    /\ searchQuery = "bar"
    /\ Len(stories) = 2
    /\ page = MaxPage
    /\ StoredState(localStorage[StoreName]) = State

\* The entry under "ui-store" is there and older than the TTL.
ExpiredEntry(ls, t) ==
    /\ ls[StoreName].kind = "object"
    /\ t - StoredTimestamp(ls[StoreName]) > EXPIRATION_TIME

\* C19 (lazy expiry): a step after which the entry is gone is an explicit
\* delete or a read that found the entry older than the TTL; a step in which
\* time passes leaves storage as it is, however old the entry; and a read of
\* an entry older than the TTL never returns its value.
C19_LazyExpiry ==
    [][/\ (localStorage[StoreName] # NoItem /\ localStorage'[StoreName] = NoItem)
          => \/ clearStorage
             \/ Load /\ ExpiredEntry(localStorage, now)
       /\ now' # now => localStorage' = localStorage
       /\ (Load /\ ExpiredEntry(localStorage, now))
          => /\ lastRead'.kind # "value"
             /\ localStorage'[StoreName] = NoItem]_vars

\* An entry older than the TTL is in storage and nothing has read it yet: it
\* was written with stories in it, more than EXPIRATION_TIME has passed, and
\* it is still there.
C19_Witness ==
    /\ pc = "idle"
    /\ ExpiredEntry(localStorage, now)
    /\ StoredState(localStorage[StoreName]).stories # <<>>
    /\ State = StoredState(localStorage[StoreName])

\* C20 (expiry counts from the last write): a read that returns a value
\* leaves the entry, value and timestamp, as it was; every step that writes
\* the entry stamps it with the time of the step; and a setSearchQuery with
\* the current query leaves the entry as it was.
C20_ExpiryFromLastWrite ==
    [][/\ (Load /\ lastRead'.kind = "value") => localStorage' = localStorage
       /\ (localStorage' # localStorage /\ localStorage'[StoreName] # NoItem)
          => StoredTimestamp(localStorage'[StoreName]) = now
       /\ (resetStories \/ resetSearchStories
           \/ \E p \in Pages : setPage(p) \/ setSearchPage(p))
          => StoredTimestamp(localStorage'[StoreName]) = now
       /\ \A query \in Queries :
             (query = searchQuery /\ setSearchQuery(query))
             => localStorage' = localStorage]_vars

\* A read one millisecond after the last write returns the value at a time
\* when an entry written at the start (time 0) would have expired: the entry
\* carries the time of the last write, EXPIRATION_TIME, and the read has left
\* it so.
C20_Witness ==
    /\ pc = "hydrate"
    /\ lastRead.kind = "value"
    /\ lastRead.value.state.searchQuery # ""
    /\ now = EXPIRATION_TIME + 1
    /\ StoredTimestamp(localStorage[StoreName]) = EXPIRATION_TIME
    /\ Expired(now, 0)
    /\ StoredState(localStorage[StoreName]) = lastRead.value.state

====
